---- MODULE Spec2Model ----
(***************************************************************************)
(* Model of src/src/kv/mod.rs: the KeyRange constructors (range, key, all, *)
(* prefix and the From conversions) and the KeyValue conversion and text   *)
(* accessors.  Byte sequences are TLA+ sequences of numbers in 0..255,     *)
(* indexed from 1 (Rust index n is TLA+ index n + 1).                      *)
(***************************************************************************)
EXTENDS Integers, Sequences, FiniteSets

VARIABLES
    pc,         \* position: "idle", "scan", "break", "done", "panic"
    op,         \* the operation called last
    key,        \* the `key` / `prefix` argument (after .into())
    range_end,  \* the `range_end` argument of range / Range.end
    end,        \* prefix's local `end`
    i,          \* prefix's loop index, 1-based; 0 when the range is used up
    steps,      \* loop bodies executed by the current prefix call
    incs,       \* byte increments applied by the current prefix call
    ret,        \* returned KeyRange: <<>> (none yet) or <<kr>>
    proto,      \* wire record handed to KeyValue::from: <<>> or <<m>>
    kv,         \* the KeyValue built from it: <<>> or <<kv>>
    text        \* &str returned by key_str / value_str: <<>> or <<bytes>>

vars == <<pc, op, key, range_end, end, i, steps, incs, ret, proto, kv, text>>

----------------------------------------------------------------------------
\* Bounds of the model and the inputs drawn within them.

MaxLen == 3
MaxRangeLen == 2
MaxTextLen == 2

\* Byte values the key inputs are built from: the low end, "a" "b" "c",
\* and the two values at the top of the u8 range.
ByteVals == {0, 97, 98, 99, 254, 255}

\* Byte values of KeyValue contents: "1", "a", a UTF-8 continuation byte, a
\* two-byte lead (0xC3 0xA9 is U+00E9) and a byte no UTF-8 text holds.
TextBytes == {49, 97, 169, 195, 255}

Revisions == {5, 7}
Versions == {2}
Leases == {0, 99}

BSeq(S, n) == UNION {[1..m -> S] : m \in 0..n}

Inputs == BSeq(ByteVals, MaxLen)
RangeInputs == BSeq(ByteVals, MaxRangeLen)
TextInputs == BSeq(TextBytes, MaxTextLen)

----------------------------------------------------------------------------
\* std::str::from_utf8 and u8 arithmetic, as used by the source.

Cont(b) == b \in 128..191

RECURSIVE Utf8ValidFrom(_, _)
Utf8ValidFrom(s, n) ==
    IF n > Len(s) THEN TRUE
    ELSE LET b == s[n]
             more(m) == n + m <= Len(s)
         IN  CASE b <= 127 -> Utf8ValidFrom(s, n + 1)
               [] b \in 194..223 ->
                    more(1) /\ Cont(s[n + 1]) /\ Utf8ValidFrom(s, n + 2)
               [] b = 224 ->
                    more(2) /\ s[n + 1] \in 160..191 /\ Cont(s[n + 2])
                    /\ Utf8ValidFrom(s, n + 3)
               [] b \in (225..236) \cup (238..239) ->
                    more(2) /\ Cont(s[n + 1]) /\ Cont(s[n + 2])
                    /\ Utf8ValidFrom(s, n + 3)
               [] b = 237 ->
                    more(2) /\ s[n + 1] \in 128..159 /\ Cont(s[n + 2])
                    /\ Utf8ValidFrom(s, n + 3)
               [] b = 240 ->
                    more(3) /\ s[n + 1] \in 144..191 /\ Cont(s[n + 2])
                    /\ Cont(s[n + 3]) /\ Utf8ValidFrom(s, n + 4)
               [] b \in 241..243 ->
                    more(3) /\ Cont(s[n + 1]) /\ Cont(s[n + 2])
                    /\ Cont(s[n + 3]) /\ Utf8ValidFrom(s, n + 4)
               [] b = 244 ->
                    more(3) /\ s[n + 1] \in 128..143 /\ Cont(s[n + 2])
                    /\ Cont(s[n + 3]) /\ Utf8ValidFrom(s, n + 4)
               [] OTHER -> FALSE

\* std::str::from_utf8(bytes): Ok(the same bytes viewed as &str) or Err.
from_utf8(bytes) ==
    IF Utf8ValidFrom(bytes, 1) THEN [ok |-> TRUE, str |-> bytes]
    ELSE [ok |-> FALSE, str |-> <<>>]

\* The strings a &str / String argument can hold.
StrInputs == {s \in Inputs : Utf8ValidFrom(s, 1)}

\* 0xff, the byte the scan of prefix skips.
ByteMax == 255

\* Mutant: the increment is lost.
IncByteLost(b) == b

\* end[n] += 1 on a u8.
IncByte(b) == (b + 1) % 256

\* Mutant: the carry keeps the bytes after the incremented one.
TruncateNot(s, n) == s

\* Vec::truncate(n): keep the first n elements.
Truncate(s, n) == IF n >= Len(s) THEN s ELSE SubSeq(s, 1, n)

----------------------------------------------------------------------------
\* Byte sequences as keys: the ordering and the prefix relation the store
\* applies to a KeyRange.

\* a < b in lexicographic byte order, compared from index n on.
RECURSIVE LexLessFrom(_, _, _)
LexLessFrom(a, b, n) ==
    IF n > Len(a) THEN n <= Len(b)
    ELSE IF n > Len(b) THEN FALSE
    ELSE IF a[n] # b[n] THEN a[n] < b[n]
    ELSE LexLessFrom(a, b, n + 1)

LexLess(a, b) == LexLessFrom(a, b, 1)

LexLeq(a, b) == a = b \/ LexLess(a, b)

IsPrefix(p, k) == Len(p) <= Len(k) /\ \A n \in 1..Len(p) : k[n] = p[n]

AllFF(p) == \A n \in 1..Len(p) : p[n] = ByteMax

\* The keys a KeyRange addresses: a point, the all-keys sentinel, or the
\* half-open interval [key, range_end).
Addresses(kr, k) ==
    IF kr.range_end = <<>> THEN k = kr.key
    ELSE IF kr.key = <<0>> /\ kr.range_end = <<0>> THEN TRUE
    ELSE LexLeq(kr.key, k) /\ LexLess(k, kr.range_end)

\* Keys probed against a prefix range: every sequence within the bounds
\* over the input bytes and their successors, and p extended by one byte.
KeyBytes == ByteVals \cup {(b + 1) % 256 : b \in ByteVals}

BoundedKeys == BSeq(KeyBytes, MaxLen)

Probes(p) == BoundedKeys \cup {Append(p, b) : b \in KeyBytes}

----------------------------------------------------------------------------
\* KeyRange constructors.

\* Mutant: the boundaries are put in order.
KeyRange_range_ordered(k, e) ==
    IF LexLess(e, k) THEN [key |-> e, range_end |-> k]
    ELSE [key |-> k, range_end |-> e]

KeyRange_range(k, e) == [key |-> k, range_end |-> e]

\* Mutant: the empty key is read as "all keys".
KeyRange_key_empty_is_all(k) ==
    IF k = <<>> THEN [key |-> <<0>>, range_end |-> <<0>>]
    ELSE [key |-> k, range_end |-> <<>>]

KeyRange_key(k) == [key |-> k, range_end |-> <<>>]

KeyRange_all == [key |-> <<0>>, range_end |-> <<0>>]

\* A constructor or conversion is called on fresh inputs: the functions
\* share no state, so one call is one behaviour.
Callable == pc = "idle"

\* A call that returns at once: no loop state, no KeyValue state touched.
Returns(name, k, e, kr) ==
    /\ op' = name
    /\ key' = k
    /\ range_end' = e
    /\ end' = <<>>
    /\ i' = 0
    /\ steps' = 0
    /\ incs' = 0
    /\ ret' = <<kr>>
    /\ pc' = "done"
    /\ UNCHANGED <<proto, kv, text>>

CallRange ==
    /\ Callable
    /\ \E k \in RangeInputs, e \in RangeInputs :
           Returns("range", k, e, KeyRange_range(k, e))

CallKey ==
    /\ Callable
    /\ \E k \in Inputs : Returns("key", k, <<>>, KeyRange_key(k))

CallAll ==
    /\ Callable
    /\ Returns("all", <<>>, <<>>, KeyRange_all)

\* impl From<Range<T>> for KeyRange
FromRange ==
    /\ Callable
    /\ \E s \in RangeInputs, e \in RangeInputs :
           Returns("from_range", s, e, KeyRange_range(s, e))

\* impl From<&str> for KeyRange
FromStr ==
    /\ Callable
    /\ \E k \in StrInputs : Returns("from_str", k, <<>>, KeyRange_key(k))

\* impl From<String> for KeyRange
FromString ==
    /\ Callable
    /\ \E k \in StrInputs : Returns("from_string", k, <<>>, KeyRange_key(k))

\* Mutant: the empty prefix is not told apart.
PrefixEnterNoEmptyCheck(p) ==
    /\ op' = "prefix"
    /\ key' = p
    /\ range_end' = <<>>
    /\ steps' = 0
    /\ incs' = 0
    /\ end' = p
    /\ i' = Len(p)
    /\ ret' = <<>>
    /\ pc' = "scan"
    /\ UNCHANGED <<proto, kv, text>>

\* KeyRange::prefix up to the loop: the empty prefix returns all() at
\* once, any other clones key into end and starts the scan at the last index.
PrefixEnter(p) ==
    /\ op' = "prefix"
    /\ key' = p
    /\ range_end' = <<>>
    /\ steps' = 0
    /\ incs' = 0
    /\ IF p = <<>>
       THEN /\ end' = <<>>
            /\ i' = 0
            /\ ret' = <<KeyRange_all>>
            /\ pc' = "done"
       ELSE /\ end' = p
            /\ i' = Len(p)
            /\ ret' = <<>>
            /\ pc' = "scan"
    /\ UNCHANGED <<proto, kv, text>>

PrefixCall ==
    /\ Callable
    /\ \E p \in Inputs : PrefixEnter(p)

\* Mutant: the scan tests <= 0xff, so it increments the last byte always.
PrefixScanAnyByte ==
    /\ pc = "scan"
    /\ i >= 1
    /\ steps' = steps + 1
    /\ IF end[i] <= ByteMax
       THEN /\ end' = Truncate([end EXCEPT ![i] = IncByte(end[i])], i)
            /\ incs' = incs + 1
            /\ i' = i
            /\ pc' = "break"
       ELSE /\ i' = i - 1
            /\ UNCHANGED <<end, incs, pc>>
    /\ UNCHANGED <<op, key, range_end, ret, proto, kv, text>>

\* One body of `for i in (0..end.len()).rev()`.
PrefixScan ==
    /\ pc = "scan"
    /\ i >= 1
    /\ steps' = steps + 1
    /\ IF end[i] < ByteMax
       THEN /\ end' = Truncate([end EXCEPT ![i] = IncByte(end[i])], i)
            /\ incs' = incs + 1
            /\ i' = i
            /\ pc' = "break"
       ELSE /\ i' = i - 1
            /\ UNCHANGED <<end, incs, pc>>
    /\ UNCHANGED <<op, key, range_end, ret, proto, kv, text>>

\* Mutant: the range end is returned as the clone of key, the scan dropped.
PrefixReturnKey ==
    /\ \/ pc = "break"
       \/ pc = "scan" /\ i = 0
    /\ ret' = <<[key |-> key, range_end |-> key]>>
    /\ pc' = "done"
    /\ UNCHANGED <<op, key, range_end, end, i, steps, incs, proto, kv, text>>

\* The loop is left (break, or the range used up): Self { key, range_end }.
PrefixReturn ==
    /\ \/ pc = "break"
       \/ pc = "scan" /\ i = 0
    /\ ret' = <<[key |-> key, range_end |-> end]>>
    /\ pc' = "done"
    /\ UNCHANGED <<op, key, range_end, end, i, steps, incs, proto, kv, text>>

----------------------------------------------------------------------------
\* KeyValue.

Protos ==
    [key : TextInputs, value : TextInputs, create_revision : Revisions,
     mod_revision : Revisions, version : Versions, lease : Leases]

\* Mutant: the two revisions change places.
KeyValue_from_swapped(m) ==
    [key |-> m.key,
     value |-> m.value,
     create_revision |-> m.mod_revision,
     mod_revision |-> m.create_revision,
     version |-> m.version,
     lease |-> m.lease]

\* impl From<mvccpb::KeyValue> for KeyValue: the field initialisers.
KeyValue_from(m) ==
    [key |-> m.key,
     value |-> m.value,
     create_revision |-> m.create_revision,
     mod_revision |-> m.mod_revision,
     version |-> m.version,
     lease |-> m.lease]

FromWire(m) ==
    /\ op' = "from"
    /\ proto' = <<m>>
    /\ kv' = <<KeyValue_from(m)>>
    /\ text' = <<>>
    /\ pc' = "done"
    /\ UNCHANGED <<key, range_end, end, i, steps, incs, ret>>

FromProto ==
    /\ Callable
    /\ \E m \in Protos : FromWire(m)

\* A text accessor is called on a KeyValue that exists.
HasKeyValue == pc = "done" /\ kv # <<>>

\* from_utf8(bytes).expect(..) on &self: the text, or a panic.
TextOf(name, bytes) ==
    /\ op' = name
    /\ LET r == from_utf8(bytes)
       IN  IF r.ok
           THEN text' = <<r.str>> /\ pc' = "done"
           ELSE text' = <<>> /\ pc' = "panic"
    /\ UNCHANGED <<key, range_end, end, i, steps, incs, ret, proto, kv>>

\* Mutant: key_str decodes the value.
key_str_of_value ==
    /\ HasKeyValue
    /\ TextOf("key_str", kv[1].value)

key_str ==
    /\ HasKeyValue
    /\ TextOf("key_str", kv[1].key)

value_str ==
    /\ HasKeyValue
    /\ TextOf("value_str", kv[1].value)

----------------------------------------------------------------------------
Init ==
    /\ pc = "idle"
    /\ op = "none"
    /\ key = <<>>
    /\ range_end = <<>>
    /\ end = <<>>
    /\ i = 0
    /\ steps = 0
    /\ incs = 0
    /\ ret = <<>>
    /\ proto = <<>>
    /\ kv = <<>>
    /\ text = <<>>

NextKeyRange ==
    \/ CallRange
    \/ CallKey
    \/ CallAll
    \/ PrefixCall
    \/ PrefixScan
    \/ PrefixReturn
    \/ FromRange
    \/ FromStr
    \/ FromString

NextKeyValue ==
    \/ FromProto
    \/ key_str
    \/ value_str

\* The KeyRange constructors, applied to every input within the bounds.
SpecKeyRange == Init /\ [][NextKeyRange]_vars

\* KeyValue conversion and text accessors, for every record within the bounds.
SpecKeyValue == Init /\ [][NextKeyValue]_vars

----------------------------------------------------------------------------
\* Properties.

\* prefix(p) has returned for a non-empty p.
PrefixDone == op = "prefix" /\ pc = "done" /\ key # <<>>

\* The index of the rightmost byte of p below 0xff (p has one).
LastBelowMax(p) ==
    CHOOSE n \in 1..Len(p) :
        /\ p[n] < ByteMax
        /\ \A m \in (n + 1)..Len(p) : p[m] = ByteMax

\* p cut off just after that byte, the byte one higher, the rest as in p.
CutAndIncrement(p) ==
    [n \in 1..LastBelowMax(p) |->
        IF n = LastBelowMax(p) THEN p[n] + 1 ELSE p[n]]

\* C1: for a non-empty p that is not all 0xff, a key k lies in
\* [prefix(p).key, prefix(p).range_end) exactly when p is a prefix of k.  So
\* range_end is above every key with prefix p, and is the least such bound:
\* any e below range_end is at most p or has the prefix p itself.
C1_PrefixRangeIsExactlyThePrefixedKeys ==
    (PrefixDone /\ ~AllFF(key)) =>
        \A k \in Probes(key) :
            (LexLeq(ret[1].key, k) /\ LexLess(k, ret[1].range_end))
                <=> IsPrefix(key, k)

C1_Witness ==
    /\ PrefixDone
    /\ key = <<97, 98, 255>>
    /\ ret[1].range_end = <<97, 99>>
    /\ LexLess(<<97, 98, 255, 255>>, ret[1].range_end)
    /\ ~LexLess(<<97, 99>>, ret[1].range_end)

\* C2: for a non-empty p made of 0xff bytes only, prefix(p) is not a finite
\* interval that leaves out a key with prefix p: every such key is
\* addressed by the returned range.
C2_AllFFPrefixLeavesOutNoKey ==
    (PrefixDone /\ AllFF(key)) =>
        \A k \in Probes(key) : IsPrefix(key, k) => Addresses(ret[1], k)

\* C3: for a non-empty p with a byte below 0xff, prefix(p) has key = p and
\* range_end = p cut off after its rightmost byte below 0xff, that byte
\* one higher; "abc" gives "abd" and "ab\xff" gives "ac".
C3_PrefixRangeEndIsCutAndIncremented ==
    /\ (PrefixDone /\ ~AllFF(key)) =>
          /\ ret[1].key = key
          /\ ret[1].range_end = CutAndIncrement(key)
    /\ (PrefixDone /\ key = <<97, 98, 99>>) =>
          ret[1].range_end = <<97, 98, 100>>
    /\ (PrefixDone /\ key = <<97, 98, 255>>) =>
          ret[1].range_end = <<97, 99>>

C3_Witness ==
    /\ PrefixDone
    /\ key = <<97, 98, 99>>
    /\ ret = <<[key |-> <<97, 98, 99>>, range_end |-> <<97, 98, 100>>]>>

\* C4: prefix of the empty sequence returns all(): key = range_end = [0x00].
C4_EmptyPrefixIsAll ==
    (op = "prefix" /\ pc = "done" /\ key = <<>>) =>
        /\ ret = <<KeyRange_all>>
        /\ ret[1].key = <<0>>
        /\ ret[1].range_end = <<0>>

C4_Witness ==
    /\ op = "prefix"
    /\ pc = "done"
    /\ key = <<>>
    /\ ret # <<>>

\* C5: key(k), and the conversions from &str and String, return key = k
\* with an empty range_end for every k; all() returns key = range_end =
\* [0x00].
C5_KeyIsPointAndAllIsSentinel ==
    /\ (op \in {"key", "from_str", "from_string"} /\ pc = "done") =>
          ret = <<[key |-> key, range_end |-> <<>>]>>
    /\ (op = "all" /\ pc = "done") =>
          ret = <<[key |-> <<0>>, range_end |-> <<0>>]>>

C5_Witness ==
    /\ op = "key"
    /\ pc = "done"
    /\ key = <<>>
    /\ ret = <<[key |-> <<>>, range_end |-> <<>>]>>

\* C6: range(a, b), and the conversion of a..b, return key = a and
\* range_end = b as given, whatever their order or content.
C6_RangeKeepsBothBoundaries ==
    (op \in {"range", "from_range"} /\ pc = "done") =>
        ret = <<[key |-> key, range_end |-> range_end]>>

C6_Witness ==
    /\ op = "range"
    /\ pc = "done"
    /\ LexLess(range_end, key)
    /\ ret[1].key = key
    /\ ret[1].range_end = range_end

\* C7: the KeyValue built from a wire record has the record's key, value,
\* create_revision, mod_revision, version and lease, each in the field of
\* the same name.
C7_KeyValueCopiesEveryField ==
    kv # <<>> =>
        /\ proto # <<>>
        /\ kv[1].key = proto[1].key
        /\ kv[1].value = proto[1].value
        /\ kv[1].create_revision = proto[1].create_revision
        /\ kv[1].mod_revision = proto[1].mod_revision
        /\ kv[1].version = proto[1].version
        /\ kv[1].lease = proto[1].lease

C7_Witness ==
    /\ op = "from"
    /\ pc = "done"
    /\ proto =
         <<[key |-> <<97>>, value |-> <<49>>, create_revision |-> 5,
            mod_revision |-> 7, version |-> 2, lease |-> 99]>>
    /\ kv =
         <<[key |-> <<97>>, value |-> <<49>>, create_revision |-> 5,
            mod_revision |-> 7, version |-> 2, lease |-> 99]>>

\* What key_str / value_str must have done with the bytes it was given.
TextOutcome(name, bytes) ==
    /\ (op = name /\ pc = "done") =>
          /\ Utf8ValidFrom(bytes, 1)
          /\ text = <<bytes>>
    /\ (op = name /\ pc = "panic") =>
          /\ ~Utf8ValidFrom(bytes, 1)
          /\ text = <<>>

\* C8: key_str() and value_str() return the bytes of their own field as
\* text when those are valid UTF-8 and panic when they are not, whatever
\* the other field holds; both can be called on every KeyValue, and
\* neither changes it.
C8_TextAccessorsReturnOrPanic ==
    /\ [](kv # <<>> =>
            /\ TextOutcome("key_str", kv[1].key)
            /\ TextOutcome("value_str", kv[1].value)
            /\ (op = "key_str" /\ kv[1].key \in {<<>>, <<97>>, <<195, 169>>})
                  => pc = "done"
            /\ (op = "key_str" /\ kv[1].key \in {<<255>>, <<195>>, <<169>>})
                  => pc = "panic"
            /\ (op = "value_str" /\ kv[1].value \in {<<>>, <<49>>, <<195, 169>>})
                  => pc = "done"
            /\ (op = "value_str" /\ kv[1].value \in {<<255>>, <<195>>, <<169>>})
                  => pc = "panic"
            /\ HasKeyValue => (ENABLED key_str /\ ENABLED value_str))
    /\ [][kv # <<>> => kv' = kv]_vars

\* key_str panics on an invalid key although the value is valid text.
C8_Witness ==
    /\ op = "key_str"
    /\ pc = "panic"
    /\ kv[1].key = <<255>>
    /\ kv[1].value = <<195, 169>>
    /\ text = <<>>

\* The result of prefix as a function of its argument alone.
PrefixResult(p) ==
    IF p = <<>> THEN [key |-> <<0>>, range_end |-> <<0>>]
    ELSE IF AllFF(p) THEN [key |-> p, range_end |-> p]
    ELSE [key |-> p, range_end |-> CutAndIncrement(p)]

IsBytes(s) == \A n \in 1..Len(s) : s[n] \in 0..255

\* C9: every constructor returns a KeyRange for every input and has no
\* error outcome; the scan of prefix runs at most len(p) bodies and then
\* returns, increments at most one byte, and only a byte below 0xff (no
\* byte passes 255); the result depends on the argument alone.
C9_ConstructorsAreTotal ==
    /\ [](/\ pc \in {"idle", "scan", "break", "done"}
          /\ pc = "idle" => ENABLED CallRange /\ ENABLED CallKey
                            /\ ENABLED CallAll /\ ENABLED PrefixCall
          /\ pc \in {"scan", "break"} => ENABLED (PrefixScan \/ PrefixReturn)
          /\ pc = "scan" => i + steps = Len(key)
          /\ steps <= Len(key)
          /\ incs <= 1
          /\ IsBytes(end)
          /\ pc = "done" =>
                /\ Len(ret) = 1
                /\ IsBytes(ret[1].key)
                /\ IsBytes(ret[1].range_end)
          /\ (pc = "done" /\ op = "prefix") => ret[1] = PrefixResult(key))
    /\ [][incs' # incs =>
            /\ incs' = 1
            /\ end[i] < ByteMax
            /\ end'[i] = end[i] + 1
            /\ \A n \in 1..(i - 1) : end'[n] = end[n]]_vars

\* The scan of an all-0xff prefix: one body per byte, no increment.
C9_Witness ==
    /\ op = "prefix"
    /\ pc = "done"
    /\ key = <<255, 255, 255>>
    /\ steps = 3
    /\ incs = 0
    /\ Len(ret) = 1

\* C10: for a non-empty p, prefix(p) has key = p and a non-empty range_end
\* no longer than p, so it is neither a point range nor the all-keys
\* sentinel; prefix([0x00]) is key [0x00], range_end [0x01]; only the empty
\* prefix returns the sentinel.
C10_PrefixIsNeitherPointNorSentinel ==
    /\ PrefixDone =>
          /\ ret[1].key = key
          /\ ret[1].range_end # <<>>
          /\ Len(ret[1].range_end) <= Len(key)
          /\ ret[1] # [key |-> <<0>>, range_end |-> <<0>>]
    /\ (PrefixDone /\ key = <<0>>) =>
          ret = <<[key |-> <<0>>, range_end |-> <<1>>]>>
    /\ (op = "prefix" /\ pc = "done"
            /\ ret = <<[key |-> <<0>>, range_end |-> <<0>>]>>) =>
          key = <<>>

C10_Witness ==
    /\ PrefixDone
    /\ key = <<0>>
    /\ ret = <<[key |-> <<0>>, range_end |-> <<1>>]>>

====
